---- MODULE Spec2Model ----
(***************************************************************************)
(* The authoritative multiplayer hub of src/server/main.py: the World      *)
(* (Hub.players, Hub.sockets), the per-connection handler ws_endpoint,     *)
(* and the 20 Hz tick loop Hub._ticker.                                    *)
(*                                                                         *)
(* The server runs on one asyncio event loop: tasks interleave only at an  *)
(* await that really suspends (accept, send_text, receive_text, sleep,     *)
(* gather).  Hub.lock is never held across such an await, so acquiring it  *)
(* never suspends, and every action of Spec is the code that runs between  *)
(* two suspension points of one task.                                      *)
(*                                                                         *)
(* Spec      the hub: connections, frames, disconnects and the tick loop.  *)
(* SpecWorld one registered player, every combination of keys, the ticks.  *)
(* SpecSeq   one registered player moving left in ticks of TICK_MS.        *)
(* SpecLock  the operations of Spec split where Hub.lock is requested,     *)
(*           acquired and released, the holder of the lock in the state.   *)
(* SpecLife  Spec with Hub.start and Hub.stop.                             *)
(*                                                                         *)
(* Positions are floats in the source.  They are modelled in fixed point,  *)
(* in thousandths of a pixel, and time in milliseconds, so that            *)
(* speed[px/s] * dt[ms] is a displacement in thousandths of a pixel.       *)
(***************************************************************************)
EXTENDS Integers, FiniteSets, Sequences, TLC

\* ---- Bounds of the model ----
MaxConns == 2
NumIds == 2
MaxTicks == 2
MaxMsgs == 2
\* The bounds of SpecWorld, the World Model with one connected player.
MaxWorldTicks == 4
MaxWorldMsgs == 2
\* The bounds of SpecSeq, the sequence of ticks of a player moving left.
MaxSeqTicks == 12
MaxSeqMsgs == 2

\* ---- World constants (main.py:39-49) ----
TILE_SIZE == 48
MAP_COLS == 20
MAP_ROWS == 12
WORLD_WIDTH == MAP_COLS * TILE_SIZE
WORLD_HEIGHT == MAP_ROWS * TILE_SIZE
PLAYER_SIZE == 30
DEFAULT_PLAYER_SPEED == 220
DT_CLAMP_MS == 100
\* ---- Tick config (main.py:48-49) ----
TICK_RATE == 20
TICK_MS == 1000 \div TICK_RATE

\* Thousandths of a pixel per pixel.
UNIT == 1000
\* 1/sqrt(2) = INV_SQRT2_NUM / INV_SQRT2_DEN to five decimals.
INV_SQRT2_NUM == 70711
INV_SQRT2_DEN == 100000

MaxX == (WORLD_WIDTH - PLAYER_SIZE) * UNIT
MaxY == (WORLD_HEIGHT - PLAYER_SIZE) * UNIT

Conns == 1..MaxConns
\* The ids _rand_id can return (62^6 of them in the source).
Ids == 1..NumIds
NoId == 0
\* The tasks that use Hub.lock: the handler of each connection and the tick
\* task; Free is no task.
TickTask == MaxConns + 1
Free == 0

Flags == {"up", "down", "left", "right"}
\* A flag of a JSON frame is "true", "false", or "absent" (the key missing).

\* The flags of the input frames of Spec: the keys sent as true, and whether
\* the other keys are sent as false or left out.
Presses ==
    { <<{"left"}, "absent">>, <<{"up", "right"}, "false">>,
      <<{"left", "right", "down"}, "absent">> }

Frame(t, i, on, rest) ==
    [type |-> t, id |-> i,
     up    |-> IF "up" \in on THEN "true" ELSE rest,
     down  |-> IF "down" \in on THEN "true" ELSE rest,
     left  |-> IF "left" \in on THEN "true" ELSE rest,
     right |-> IF "right" \in on THEN "true" ELSE rest]

\* The parsed JSON objects a client may send: {"type": "hello"}, and input
\* frames with any id or none, the keys not held down false or missing.
Msgs ==
    { Frame("hello", NoId, {}, "absent") } \cup
    { Frame("input", i, k[1], k[2]) : i \in Ids \cup {NoId}, k \in Presses }

\* The frames of SpecWorld: the input frames of player 1 with every
\* combination of keys.
WorldMsgs == { Frame("input", 1, on, "false") : on \in SUBSET Flags }

\* Wall-clock milliseconds between two iterations of the loop.
Elapsed == {0, 50, 250}

\* random.random() * (WORLD - PLAYER_SIZE): the start position of Spec, and
\* the start positions of SpecWorld, each within one step of two edges.
Starts == { <<920 * UNIT, 5 * UNIT>> }
WorldStarts ==
    { <<15 * UNIT, 5 * UNIT>>, <<920 * UNIT, 5 * UNIT>>,
      <<15 * UNIT, 540 * UNIT>>, <<920 * UNIT, 540 * UNIT>> }

\* The start positions of SpecSeq, one, three and ten steps of a tick from the
\* left edge, each on a row of its own.
SeqStarts ==
    { <<8 * UNIT, 5 * UNIT>>, <<30 * UNIT, 200 * UNIT>>, <<100 * UNIT, 540 * UNIT>> }

\* {"type": "input", "id": 1, "left": true}
LeftOnly == Frame("input", 1, {"left"}, "absent")

VARIABLES
    players,      \* Hub.players: id -> [x, y, input]
    sockets,      \* Hub.sockets: id -> connection
    pc,           \* where each connection's ws_endpoint task is
    pid,          \* the id connect() drew for the connection
    link,         \* the transport of the connection: open, stalled, closed
    evPending,    \* sends of the connection's join/leave gather not yet finished
    nDisconnect,  \* how often ws_endpoint called hub.disconnect for the connection
    tickPc,       \* where the tick task is: sleep, gather, crashed
    tickPending,  \* sends of the tick's gather not yet finished
    ticks,        \* iterations of the loop so far
    msgs,         \* frames handled so far
    welcome,      \* the welcome frame connect() has built and is sending
    nWelcome,     \* how often the welcome send was called for the connection
    lock,         \* Hub.lock: the task that holds it, or Free
    tickTask,     \* Hub._tick_task: "none" or "task"
    cancelReq,    \* cancel() was called on the tick task and has not taken effect
    stopRes,      \* how the last call of Hub.stop ended: none, returned, raised
    last          \* what the last step did, if it handled a frame or finished a send

vars == <<players, sockets, pc, pid, link, evPending, nDisconnect,
          tickPc, tickPending, ticks, msgs, welcome, nWelcome,
          lock, tickTask, cancelReq, stopRes, last>>

\* The state of start() and stop().
lifeVars == <<tickTask, cancelReq, stopRes>>

Nothing == [op |-> "none"]

\* What a frame is to the connection that sent it and whose id is p: not an
\* input frame, an input frame claiming another id or none, one of a player
\* that is gone, or an input frame of its own player.
MsgKind(ps, p, m) ==
    IF m.type # "input" THEN "other"
    ELSE IF m.id # p THEN "foreign"
    ELSE IF p \notin DOMAIN ps THEN "vanished"
    ELSE "own"

\* The record of a handled frame: its sender, its kind, the id it claims, and
\* the flags of a frame of the sender's own player.
Handled(ps, c, p, m) ==
    [op |-> "frame", conn |-> c, kind |-> MsgKind(ps, p, m), id |-> m.id,
     flags |-> IF MsgKind(ps, p, m) = "own"
               THEN [up |-> m.up, down |-> m.down, left |-> m.left, right |-> m.right]
               ELSE <<>>]

\* ---- Helpers ----
Min(a, b) == IF a < b THEN a ELSE b
Max(a, b) == IF a > b THEN a ELSE b
Abs(a) == IF a < 0 THEN -a ELSE a
Sign(a) == IF a < 0 THEN -1 ELSE IF a > 0 THEN 1 ELSE 0

\* A variant of _clamp that does not clamp.
ClampNone(v, vmin, vmax) == v
\* _clamp (main.py:53-55)
Clamp(v, vmin, vmax) == Max(vmin, Min(vmax, v))

InputState == [up |-> FALSE, down |-> FALSE, left |-> FALSE, right |-> FALSE]

\* A variant of the velocity with the two directions of the axis exchanged.
VelocityReversed(neg, pos, speed) ==
    (IF neg THEN speed ELSE 0) + (IF pos THEN -speed ELSE 0)
\* Player.integrate, the velocity of one axis (main.py:98-107)
Velocity(neg, pos, speed) ==
    (IF neg THEN -speed ELSE 0) + (IF pos THEN speed ELSE 0)

\* A variant of the displacement without the scaling of diagonals.
DisplacementUnscaled(v, diagonal, dt) == v * dt
\* vx * inv * dt, or vx * dt (main.py:110-116), in thousandths of a pixel
Displacement(v, diagonal, dt) ==
    IF diagonal
    THEN Sign(v) * ((Abs(v) * dt * INV_SQRT2_NUM) \div INV_SQRT2_DEN)
    ELSE v * dt

\* Player.integrate (main.py:92-120)
integrate(p, dt) ==
    LET vx == Velocity(p.input.left, p.input.right, DEFAULT_PLAYER_SPEED)
        vy == Velocity(p.input.up, p.input.down, DEFAULT_PLAYER_SPEED)
        diagonal == vx # 0 /\ vy # 0
        nx == p.x + Displacement(vx, diagonal, dt)
        ny == p.y + Displacement(vy, diagonal, dt)
    IN  [p EXCEPT !.x = Clamp(nx, 0, MaxX), !.y = Clamp(ny, 0, MaxY)]

\* A variant of the step that integrates every player twice.
StepTwice(ps, dt) == [i \in DOMAIN ps |-> integrate(integrate(ps[i], dt), dt)]
\* Hub._step (main.py:181-185)
Step(ps, dt) == [i \in DOMAIN ps |-> integrate(ps[i], dt)]

\* dict[key] = value
Put(d, k, v) == [i \in DOMAIN d \cup {k} |-> IF i = k THEN v ELSE d[i]]
\* dict.pop(key, None)
Pop(d, k) == [i \in DOMAIN d \ {k} |-> d[i]]

\* self.sockets.values()
SocketValues(ss) == { ss[i] : i \in DOMAIN ss }

\* Player.snapshot (main.py:122-130): the public state of player i; label and
\* color never change and are left out.
PlayerSnapshot(ps, i) == [id |-> i, x |-> ps[i].x, y |-> ps[i].y]

\* [p.snapshot() for p in self.players.values()] (main.py:191, 231): a list with
\* one entry per key of the dict, here in the order of the ids.
Snapshot(ps) ==
    LET upTo[n \in 0..NumIds] ==
            IF n = 0 THEN <<>>
            ELSE IF n \in DOMAIN ps THEN Append(upTo[n - 1], PlayerSnapshot(ps, n))
            ELSE upTo[n - 1]
    IN  upTo[NumIds]

\* The ids of the entries of a snapshot.
SnapshotIds(snap) == { snap[k].id : k \in DOMAIN snap }

\* ---- Transport ----
\* await ws.send_text(msg) on a transport that is not stalled: it returns, or
\* raises on a closed connection (main.py:202, 234)
SendText(l) == IF l = "open" THEN "sent" ELSE "raised"

\* Hub._safe_send (main.py:200-205): the exception of a failed send is swallowed
SafeSend(l) == IF SendText(l) = "raised" THEN "dropped" ELSE "sent"

\* A variant of the gather that raises the exception of a failed send.
GatherRaisesOnFailure(result) == result # "sent"
\* asyncio.gather(..., return_exceptions=True) (main.py:195-198, 253-255): an
\* exception of a send is a result of the gather, never raised to its caller.
GatherRaises(result) == FALSE

\* A variant of the gather in which a failed send abandons the sends that are
\* still pending.
GatherAbandonsOnFailure(pending, t, result) ==
    IF result = "sent" THEN pending \ {t} ELSE {}
\* One send of a gather finishes: whatever its result, the other sends stay
\* pending, each a task of its own.
GatherAfter(pending, t, result) == pending \ {t}

\* The record of a finished send of the tick's state broadcast, and of the
\* join or leave broadcast of connection c: its target and its result.
StateSent(t, result) ==
    [op |-> "send", kind |-> "state", target |-> t, result |-> result]
EventSent(c, t, result) ==
    [op |-> "send", kind |-> "event", conn |-> c, target |-> t, result |-> result]

\* The record of an iteration of the loop: the dt of its step and the snapshot
\* its broadcast serialized.
Ticked(dt, snap) == [op |-> "tick", dt |-> dt, snapshot |-> snap]

\* ---- Hub operations ----
\* Hub.connect, the new player (main.py:211-220)
NewPlayer(s) == [x |-> s[1], y |-> s[2], input |-> InputState]

\* No welcome frame is being sent.
NoFrame == [type |-> "none"]

\* A variant of the welcome frame whose snapshot is taken before the new
\* player is registered.
WelcomeBeforeRegister(ps, i) ==
    [type |-> "welcome", id |-> i, world |-> Snapshot(Pop(ps, i))]
\* Hub.connect, the welcome frame (main.py:226-233)
WelcomeFrame(ps, i) == [type |-> "welcome", id |-> i, world |-> Snapshot(ps)]

\* The record of the welcome send of connection c: the frame and the result.
WelcomeSent(c, frame, result) ==
    [op |-> "welcome", conn |-> c, frame |-> frame, result |-> result]

\* Hub._broadcast_event, the targets (main.py:250-252)
EventTargets(ss, exclude) ==
    { ss[p] : p \in { q \in DOMAIN ss : exclude = {} \/ q \notin exclude } }

\* bool(data.get(key)) (main.py:269-272)
Coerce(v) == v = "true"

\* A variant of the update that merges: a missing flag keeps its value.
MergedInput(old, m) ==
    [up    |-> IF m.up = "absent" THEN old.up ELSE Coerce(m.up),
     down  |-> IF m.down = "absent" THEN old.down ELSE Coerce(m.down),
     left  |-> IF m.left = "absent" THEN old.left ELSE Coerce(m.left),
     right |-> IF m.right = "absent" THEN old.right ELSE Coerce(m.right)]
\* Hub.handle_message, the new InputState (main.py:269-272)
NewInput(old, m) ==
    [up |-> Coerce(m.up), down |-> Coerce(m.down),
     left |-> Coerce(m.left), right |-> Coerce(m.right)]

\* A variant of the checks without the comparison of the claimed id.
AcceptsAnyId(ps, p, m) == m.type = "input" /\ p \in DOMAIN ps
\* Hub.handle_message, the checks before the update (main.py:259-267)
Accepts(ps, p, m) == m.type = "input" /\ m.id = p /\ p \in DOMAIN ps

\* Hub.handle_message (main.py:257-272)
HandleResult(ps, p, m) ==
    IF Accepts(ps, p, m)
    THEN [ps EXCEPT ![p].input = NewInput(ps[p].input, m)]
    ELSE ps

\* A variant of the removal that pops the last player, whatever the id.
PlayersPopLast(ps, p) ==
    IF DOMAIN ps = {} THEN ps
    ELSE Pop(ps, CHOOSE q \in DOMAIN ps : \A r \in DOMAIN ps : r <= q)
\* Hub.disconnect, the removal under the lock (main.py:241-243)
PlayersAfterDisconnect(ps, p) == Pop(ps, p)
\* A variant of the removal that leaves the socket registered.
SocketsKept(ss, p) == ss
SocketsAfterDisconnect(ss, p) == Pop(ss, p)

\* ---- Initial state: Hub() constructed, start() has created the tick task ----
Init ==
    /\ players = <<>>
    /\ sockets = <<>>
    /\ pc = [c \in Conns |-> "new"]
    /\ pid = [c \in Conns |-> NoId]
    /\ link = [c \in Conns |-> "open"]
    /\ evPending = [c \in Conns |-> {}]
    /\ nDisconnect = [c \in Conns |-> 0]
    /\ tickPc = "sleep"
    /\ tickPending = {}
    /\ ticks = 0
    /\ msgs = 0
    /\ welcome = [c \in Conns |-> NoFrame]
    /\ nWelcome = [c \in Conns |-> 0]
    /\ lock = Free
    /\ tickTask = "task"
    /\ cancelReq = FALSE
    /\ stopRes = "none"
    /\ last = Nothing

\* ---- The client side of a connection ----
\* The client stops reading: sends to it no longer complete.
Stall(c) ==
    /\ pc[c] = "recv"
    /\ link[c] = "open"
    /\ link' = [link EXCEPT ![c] = "stalled"]
    /\ last' = Nothing
    /\ UNCHANGED <<lock, lifeVars, welcome, nWelcome, players, sockets, pc, pid, evPending, nDisconnect,
                   tickPc, tickPending, ticks, msgs>>

\* The client closes the connection, or it is lost.
Close(c) ==
    /\ pc[c] \in {"welcome", "join", "recv"}
    /\ link[c] # "closed"
    /\ link' = [link EXCEPT ![c] = "closed"]
    /\ last' = Nothing
    /\ UNCHANGED <<lock, lifeVars, welcome, nWelcome, players, sockets, pc, pid, evPending, nDisconnect,
                   tickPc, tickPending, ticks, msgs>>

\* ---- ws_endpoint (main.py:297-316) ----
\* hub.connect: the client is gone, accept raises, and the exception leaves
\* ws_endpoint (main.py:209, 304)
AcceptFail(c) ==
    /\ pc[c] = "new"
    /\ pc' = [pc EXCEPT ![c] = "aborted"]
    /\ link' = [link EXCEPT ![c] = "closed"]
    /\ last' = Nothing
    /\ UNCHANGED <<lock, lifeVars, welcome, nWelcome, players, sockets, pid, evPending, nDisconnect,
                   tickPc, tickPending, ticks, msgs>>

\* hub.connect up to the await of the welcome send (main.py:209-234)
Connect(c) ==
    /\ pc[c] = "new"
    /\ \E i \in Ids, s \in Starts :
        /\ players' = Put(players, i, NewPlayer(s))
        /\ sockets' = Put(sockets, i, c)
        /\ pid' = [pid EXCEPT ![c] = i]
        /\ welcome' = [welcome EXCEPT ![c] = WelcomeFrame(players', i)]
    /\ pc' = [pc EXCEPT ![c] = "welcome"]
    /\ last' = Nothing
    /\ UNCHANGED <<lock, lifeVars, nWelcome, link, evPending, nDisconnect, tickPc, tickPending, ticks, msgs>>

\* hub.connect: the welcome send returns and the join gather starts, or the send
\* raises and the exception leaves connect and ws_endpoint (main.py:234-236, 304)
Welcome(c) ==
    /\ pc[c] = "welcome"
    /\ link[c] # "stalled"
    /\ IF SendText(link[c]) = "sent"
       THEN /\ pc' = [pc EXCEPT ![c] = "join"]
            /\ evPending' = [evPending EXCEPT ![c] = EventTargets(sockets, {pid[c]})]
       ELSE /\ pc' = [pc EXCEPT ![c] = "aborted"]
            /\ evPending' = evPending
    /\ welcome' = [welcome EXCEPT ![c] = NoFrame]
    /\ nWelcome' = [nWelcome EXCEPT ![c] = @ + 1]
    /\ last' = WelcomeSent(c, welcome[c], SendText(link[c]))
    /\ UNCHANGED <<lock, lifeVars, players, sockets, pid, link, nDisconnect,
                   tickPc, tickPending, ticks, msgs>>

\* One send of the connection's join or leave gather finishes (main.py:253-255)
EventSend(c, t) ==
    /\ pc[c] \in {"join", "leave"}
    /\ t \in evPending[c]
    /\ link[t] # "stalled"
    /\ IF GatherRaises(SafeSend(link[t]))
       THEN /\ pc' = [pc EXCEPT ![c] = "crashed"]
            /\ evPending' = [evPending EXCEPT ![c] = {}]
       ELSE /\ pc' = pc
            /\ evPending' = [evPending EXCEPT
                               ![c] = GatherAfter(evPending[c], t, SafeSend(link[t]))]
    /\ last' = EventSent(c, t, SafeSend(link[t]))
    /\ UNCHANGED <<lock, lifeVars, welcome, nWelcome, players, sockets, pid, link, nDisconnect,
                   tickPc, tickPending, ticks, msgs>>

\* hub.connect returns the id; ws_endpoint awaits the first frame (main.py:237, 307)
JoinDone(c) ==
    /\ pc[c] = "join"
    /\ evPending[c] = {}
    /\ pc' = [pc EXCEPT ![c] = "recv"]
    /\ last' = Nothing
    /\ UNCHANGED <<lock, lifeVars, welcome, nWelcome, players, sockets, pid, link, evPending, nDisconnect,
                   tickPc, tickPending, ticks, msgs>>

\* A frame arrives, parses to an object, and handle_message runs (main.py:307-312)
HandleMessage(c, m, limit) ==
    /\ pc[c] = "recv"
    /\ link[c] # "closed"
    /\ msgs < limit
    /\ players' = HandleResult(players, pid[c], m)
    /\ msgs' = msgs + 1
    /\ last' = Handled(players, c, pid[c], m)
    /\ UNCHANGED <<lock, lifeVars, welcome, nWelcome, sockets, pc, pid, link, evPending, nDisconnect,
                   tickPc, tickPending, ticks>>

\* A frame arrives that json.loads rejects: continue (main.py:308-311)
Malformed(c) ==
    /\ pc[c] = "recv"
    /\ link[c] # "closed"
    /\ msgs < MaxMsgs
    /\ msgs' = msgs + 1
    /\ last' = Nothing
    /\ UNCHANGED <<lock, lifeVars, welcome, nWelcome, players, sockets, pc, pid, link, evPending, nDisconnect,
                   tickPc, tickPending, ticks>>

\* hub.disconnect up to the await of the leave gather (main.py:239-255)
DisconnectCall(c) ==
    /\ players' = PlayersAfterDisconnect(players, pid[c])
    /\ sockets' = SocketsAfterDisconnect(sockets, pid[c])
    /\ evPending' = [evPending EXCEPT ![c] = EventTargets(sockets', {})]
    /\ nDisconnect' = [nDisconnect EXCEPT ![c] = @ + 1]
    /\ pc' = [pc EXCEPT ![c] = "leave"]
    /\ last' = Nothing
    /\ UNCHANGED <<lock, lifeVars, welcome, nWelcome, pid, link, tickPc, tickPending, ticks, msgs>>

\* receive_text raises WebSocketDisconnect (main.py:307, 313-314)
RecvClosed(c) ==
    /\ pc[c] = "recv"
    /\ link[c] = "closed"
    /\ DisconnectCall(c)

\* A frame parses to a JSON value that has no get(): handle_message raises
\* (main.py:259, 315-316)
RecvFault(c) ==
    /\ pc[c] = "recv"
    /\ link[c] # "closed"
    /\ DisconnectCall(c)

\* hub.disconnect returns and ws_endpoint ends; the server closes the transport
LeaveDone(c) ==
    /\ pc[c] = "leave"
    /\ evPending[c] = {}
    /\ pc' = [pc EXCEPT ![c] = "done"]
    /\ link' = [link EXCEPT ![c] = "closed"]
    /\ last' = Nothing
    /\ UNCHANGED <<lock, lifeVars, welcome, nWelcome, players, sockets, pid, evPending, nDisconnect,
                   tickPc, tickPending, ticks, msgs>>

\* ---- Hub._ticker (main.py:164-179) ----
\* dt = min(now - last_tick, 0.1) (main.py:169-172)
TickDt(e) == Min(e, DT_CLAMP_MS)

\* One iteration up to the await of the gather: dt, _step, the snapshot and
\* the sends of _broadcast_state (main.py:169-198),
\* after e milliseconds of wall-clock time.
Tick(e, limit) ==
    /\ tickPc = "sleep"
    /\ ~cancelReq
    /\ ticks < limit
    /\ players' = Step(players, TickDt(e))
    /\ tickPending' = SocketValues(sockets)
    /\ tickPc' = "gather"
    /\ ticks' = ticks + 1
    /\ last' = Ticked(TickDt(e), Snapshot(players'))
    /\ UNCHANGED <<lock, lifeVars, welcome, nWelcome, sockets, pc, pid, link, evPending, nDisconnect, msgs>>

TickStep(limit) == \E e \in Elapsed : Tick(e, limit)

\* One send of the tick's gather finishes (main.py:195-205)
TickSend(c) ==
    /\ tickPc = "gather"
    /\ ~cancelReq
    /\ c \in tickPending
    /\ link[c] # "stalled"
    /\ IF GatherRaises(SafeSend(link[c]))
       THEN /\ tickPc' = "crashed"
            /\ tickPending' = {}
       ELSE /\ tickPc' = tickPc
            /\ tickPending' = GatherAfter(tickPending, c, SafeSend(link[c]))
    /\ last' = StateSent(c, SafeSend(link[c]))
    /\ UNCHANGED <<lock, lifeVars, welcome, nWelcome, players, sockets, pc, pid, link, evPending, nDisconnect,
                   ticks, msgs>>

\* The gather returns and the loop sleeps (main.py:175-177)
TickGatherDone ==
    /\ tickPc = "gather"
    /\ ~cancelReq
    /\ tickPending = {}
    /\ tickPc' = "sleep"
    /\ last' = Nothing
    /\ UNCHANGED <<lock, lifeVars, welcome, nWelcome, players, sockets, pc, pid, link, evPending, nDisconnect,
                   tickPending, ticks, msgs>>

Next ==
    \/ \E c \in Conns : Stall(c)
    \/ \E c \in Conns : Close(c)
    \/ \E c \in Conns : AcceptFail(c)
    \/ \E c \in Conns : Connect(c)
    \/ \E c \in Conns : Welcome(c)
    \/ \E c \in Conns, t \in Conns : EventSend(c, t)
    \/ \E c \in Conns : JoinDone(c)
    \/ \E c \in Conns, m \in Msgs : HandleMessage(c, m, MaxMsgs)
    \/ \E c \in Conns : Malformed(c)
    \/ \E c \in Conns : RecvClosed(c)
    \/ \E c \in Conns : RecvFault(c)
    \/ \E c \in Conns : LeaveDone(c)
    \/ TickStep(MaxTicks)
    \/ \E c \in Conns : TickSend(c)
    \/ TickGatherDone

Spec == Init /\ [][Next]_vars

\* ---- The World Model: one connected player, its frames and the ticks ----
\* Connection 1 has connected as player 1 and awaits its frames.
InitWorld ==
    /\ \E s \in WorldStarts : players = Put(<<>>, 1, NewPlayer(s))
    /\ sockets = Put(<<>>, 1, 1)
    /\ pc = [c \in Conns |-> IF c = 1 THEN "recv" ELSE "new"]
    /\ pid = [c \in Conns |-> IF c = 1 THEN 1 ELSE NoId]
    /\ link = [c \in Conns |-> "open"]
    /\ evPending = [c \in Conns |-> {}]
    /\ nDisconnect = [c \in Conns |-> 0]
    /\ tickPc = "sleep"
    /\ tickPending = {}
    /\ ticks = 0
    /\ msgs = 0
    /\ welcome = [c \in Conns |-> NoFrame]
    /\ nWelcome = [c \in Conns |-> IF c = 1 THEN 1 ELSE 0]
    /\ lock = Free
    /\ tickTask = "task"
    /\ cancelReq = FALSE
    /\ stopRes = "none"
    /\ last = Nothing

NextWorld ==
    \/ \E m \in WorldMsgs : HandleMessage(1, m, MaxWorldMsgs)
    \/ TickStep(MaxWorldTicks)
    \/ TickSend(1)
    \/ TickGatherDone

SpecWorld == InitWorld /\ [][NextWorld]_vars

\* ---- The sequence: one connected player, fed {left: true}, ticks of 50 ms ----
InitSeq ==
    /\ \E s \in SeqStarts : players = Put(<<>>, 1, NewPlayer(s))
    /\ sockets = Put(<<>>, 1, 1)
    /\ pc = [c \in Conns |-> IF c = 1 THEN "recv" ELSE "new"]
    /\ pid = [c \in Conns |-> IF c = 1 THEN 1 ELSE NoId]
    /\ link = [c \in Conns |-> "open"]
    /\ evPending = [c \in Conns |-> {}]
    /\ nDisconnect = [c \in Conns |-> 0]
    /\ tickPc = "sleep"
    /\ tickPending = {}
    /\ ticks = 0
    /\ msgs = 0
    /\ welcome = [c \in Conns |-> NoFrame]
    /\ nWelcome = [c \in Conns |-> IF c = 1 THEN 1 ELSE 0]
    /\ lock = Free
    /\ tickTask = "task"
    /\ cancelReq = FALSE
    /\ stopRes = "none"
    /\ last = Nothing

\* An iteration of the loop exactly TICK_MS after the last, the first one after
\* the first frame.
SeqTick == msgs > 0 /\ Tick(TICK_MS, MaxSeqTicks)

NextSeq ==
    \/ HandleMessage(1, LeftOnly, MaxSeqMsgs)
    \/ SeqTick
    \/ TickSend(1)
    \/ TickGatherDone

SpecSeq == InitSeq /\ [][NextSeq]_vars


\* ---- The lock: the same operations, one step per section of code ----
\* Spec takes the code between two suspension points as one step.  SpecLock
\* splits it where Hub.lock is requested, acquired and released, so that the
\* holder of the lock is part of the state.  A task that is between two
\* suspension points is the only one that runs.
MaxLockTicks == 1
MaxLockMsgs == 1

MidPcs ==
    {"connect_lock", "connect_cs", "connect_out", "join_out", "handle_lock",
     "handle_cs", "disconnect_lock", "disconnect_cs", "disconnect_out"}
MidTickPcs == {"step_lock", "step_cs", "step_out"}

\* Every task is suspended at an await (or has ended).
Quiet == (\A c \in Conns : pc[c] \notin MidPcs) /\ tickPc \notin MidTickPcs

\* The record of a step of task t that reads or writes the collections colls.
Accessed(t, colls) == [op |-> "access", task |-> t, colls |-> colls]

\* A variant of the release that leaves the lock with its holder.
NotReleased(t) == t
\* The end of an `async with self.lock` block (main.py:185, 223, 243, 272)
Released(t) == Free

\* `async with self.lock` of task t, the lock being free (main.py:183, 221, 241, 264)
Acquire(t) == lock = Free /\ lock' = t

\* hub.connect: accept has returned, the id, the position and the Player are
\* made, and the lock is requested (main.py:209-221)
ConnectRequest(c) ==
    /\ Quiet
    /\ pc[c] = "new"
    /\ pc' = [pc EXCEPT ![c] = "connect_lock"]
    /\ last' = Nothing
    /\ UNCHANGED <<lock, lifeVars, welcome, nWelcome, players, sockets, pid, link,
                   evPending, nDisconnect, tickPc, tickPending, ticks, msgs>>

ConnectAcquire(c) ==
    /\ pc[c] = "connect_lock"
    /\ Acquire(c)
    /\ pc' = [pc EXCEPT ![c] = "connect_cs"]
    /\ last' = Nothing
    /\ UNCHANGED <<lifeVars, welcome, nWelcome, players, sockets, pid, link,
                   evPending, nDisconnect, tickPc, tickPending, ticks, msgs>>

\* The two assignments under the lock, and its release (main.py:222-223)
ConnectRegister(c) ==
    /\ pc[c] = "connect_cs"
    /\ \E i \in Ids, s \in Starts :
        /\ players' = Put(players, i, NewPlayer(s))
        /\ sockets' = Put(sockets, i, c)
        /\ pid' = [pid EXCEPT ![c] = i]
    /\ lock' = Released(c)
    /\ pc' = [pc EXCEPT ![c] = "connect_out"]
    /\ last' = Accessed(c, {"players", "sockets"})
    /\ UNCHANGED <<lifeVars, welcome, nWelcome, link, evPending, nDisconnect,
                   tickPc, tickPending, ticks, msgs>>

\* The welcome frame with the snapshot of self.players, up to the await of its
\* send (main.py:226-234)
ConnectSnapshot(c) ==
    /\ pc[c] = "connect_out"
    /\ welcome' = [welcome EXCEPT ![c] = WelcomeFrame(players, pid[c])]
    /\ pc' = [pc EXCEPT ![c] = "welcome"]
    /\ last' = Accessed(c, {"players"})
    /\ UNCHANGED <<lock, lifeVars, nWelcome, players, sockets, pid, link,
                   evPending, nDisconnect, tickPc, tickPending, ticks, msgs>>

\* The welcome send returns, or raises and ends ws_endpoint (main.py:234, 304)
WelcomeReturn(c) ==
    /\ Quiet
    /\ pc[c] = "welcome"
    /\ link[c] # "stalled"
    /\ pc' = [pc EXCEPT ![c] = IF SendText(link[c]) = "sent" THEN "join_out"
                                ELSE "aborted"]
    /\ welcome' = [welcome EXCEPT ![c] = NoFrame]
    /\ nWelcome' = [nWelcome EXCEPT ![c] = @ + 1]
    /\ last' = WelcomeSent(c, welcome[c], SendText(link[c]))
    /\ UNCHANGED <<lock, lifeVars, players, sockets, pid, link, evPending,
                   nDisconnect, tickPc, tickPending, ticks, msgs>>

\* _broadcast_event of the join: the targets from self.sockets, up to the await
\* of the gather (main.py:236, 249-255)
JoinTargets(c) ==
    /\ pc[c] = "join_out"
    /\ evPending' = [evPending EXCEPT ![c] = EventTargets(sockets, {pid[c]})]
    /\ pc' = [pc EXCEPT ![c] = "join"]
    /\ last' = Accessed(c, {"sockets"})
    /\ UNCHANGED <<lock, lifeVars, welcome, nWelcome, players, sockets, pid, link,
                   nDisconnect, tickPc, tickPending, ticks, msgs>>

\* handle_message: an input frame with the id of the connection passes the
\* two checks and the lock is requested (main.py:259-264)
HandleRequest(c) ==
    /\ Quiet
    /\ pc[c] = "recv"
    /\ link[c] # "closed"
    /\ msgs < MaxLockMsgs
    /\ msgs' = msgs + 1
    /\ pc' = [pc EXCEPT ![c] = "handle_lock"]
    /\ last' = Nothing
    /\ UNCHANGED <<lock, lifeVars, welcome, nWelcome, players, sockets, pid, link,
                   evPending, nDisconnect, tickPc, tickPending, ticks>>

HandleAcquire(c) ==
    /\ pc[c] = "handle_lock"
    /\ Acquire(c)
    /\ pc' = [pc EXCEPT ![c] = "handle_cs"]
    /\ last' = Nothing
    /\ UNCHANGED <<lifeVars, welcome, nWelcome, players, sockets, pid, link,
                   evPending, nDisconnect, tickPc, tickPending, ticks, msgs>>

\* self.players.get(pid) and the update of the flags under the lock, and its
\* release (main.py:265-272)
HandleUpdate(c) ==
    /\ pc[c] = "handle_cs"
    /\ \E m \in Msgs :
        /\ m.type = "input" /\ m.id = pid[c]
        /\ players' = HandleResult(players, pid[c], m)
    /\ lock' = Released(c)
    /\ pc' = [pc EXCEPT ![c] = "recv"]
    /\ last' = Accessed(c, {"players"})
    /\ UNCHANGED <<lifeVars, welcome, nWelcome, sockets, pid, link, evPending,
                   nDisconnect, tickPc, tickPending, ticks, msgs>>


\* receive_text or handle_message raises, ws_endpoint calls hub.disconnect, and
\* the lock is requested (main.py:307-316, 241)
DisconnectRequest(c) ==
    /\ Quiet
    /\ pc[c] = "recv"
    /\ nDisconnect' = [nDisconnect EXCEPT ![c] = @ + 1]
    /\ pc' = [pc EXCEPT ![c] = "disconnect_lock"]
    /\ last' = Nothing
    /\ UNCHANGED <<lock, lifeVars, welcome, nWelcome, players, sockets, pid, link,
                   evPending, tickPc, tickPending, ticks, msgs>>

DisconnectAcquire(c) ==
    /\ pc[c] = "disconnect_lock"
    /\ Acquire(c)
    /\ pc' = [pc EXCEPT ![c] = "disconnect_cs"]
    /\ last' = Nothing
    /\ UNCHANGED <<lifeVars, welcome, nWelcome, players, sockets, pid, link,
                   evPending, nDisconnect, tickPc, tickPending, ticks, msgs>>

\* The two pops under the lock, and its release (main.py:242-243)
DisconnectRemove(c) ==
    /\ pc[c] = "disconnect_cs"
    /\ players' = PlayersAfterDisconnect(players, pid[c])
    /\ sockets' = SocketsAfterDisconnect(sockets, pid[c])
    /\ lock' = Released(c)
    /\ pc' = [pc EXCEPT ![c] = "disconnect_out"]
    /\ last' = Accessed(c, {"players", "sockets"})
    /\ UNCHANGED <<lifeVars, welcome, nWelcome, pid, link, evPending, nDisconnect,
                   tickPc, tickPending, ticks, msgs>>

\* _broadcast_event of the leave: the targets from self.sockets, up to the
\* await of the gather (main.py:244, 249-255)
LeaveTargets(c) ==
    /\ pc[c] = "disconnect_out"
    /\ evPending' = [evPending EXCEPT ![c] = EventTargets(sockets, {})]
    /\ pc' = [pc EXCEPT ![c] = "leave"]
    /\ last' = Accessed(c, {"sockets"})
    /\ UNCHANGED <<lock, lifeVars, welcome, nWelcome, players, sockets, pid, link,
                   nDisconnect, tickPc, tickPending, ticks, msgs>>

\* The sleep ends, dt is computed, and _step requests the lock (main.py:169-183)
TickWake ==
    /\ Quiet
    /\ tickPc = "sleep"
    /\ ~cancelReq
    /\ ticks < MaxLockTicks
    /\ tickPc' = "step_lock"
    /\ last' = Nothing
    /\ UNCHANGED <<lock, lifeVars, welcome, nWelcome, players, sockets, pc, pid,
                   link, evPending, nDisconnect, tickPending, ticks, msgs>>

TickAcquire ==
    /\ tickPc = "step_lock"
    /\ Acquire(TickTask)
    /\ tickPc' = "step_cs"
    /\ last' = Nothing
    /\ UNCHANGED <<lifeVars, welcome, nWelcome, players, sockets, pc, pid, link,
                   evPending, nDisconnect, tickPending, ticks, msgs>>

\* The integration of all players under the lock, and its release (main.py:184-185)
TickIntegrate ==
    /\ tickPc = "step_cs"
    /\ \E e \in Elapsed : players' = Step(players, TickDt(e))
    /\ ticks' = ticks + 1
    /\ lock' = Released(TickTask)
    /\ tickPc' = "step_out"
    /\ last' = Accessed(TickTask, {"players"})
    /\ UNCHANGED <<lifeVars, welcome, nWelcome, sockets, pc, pid, link, evPending,
                   nDisconnect, tickPending, msgs>>

\* _broadcast_state: the snapshot of self.players and one send per value of
\* self.sockets, up to the await of the gather (main.py:189-198)
TickSnapshot ==
    /\ tickPc = "step_out"
    /\ tickPending' = SocketValues(sockets)
    /\ tickPc' = "gather"
    /\ last' = Accessed(TickTask, {"players", "sockets"})
    /\ UNCHANGED <<lock, lifeVars, welcome, nWelcome, players, sockets, pc, pid,
                   link, evPending, nDisconnect, ticks, msgs>>

\* The steps of Spec that neither use the lock nor read the collections run
\* when every task is suspended.
NextLock ==
    \/ \E c \in Conns : Quiet /\ Stall(c)
    \/ \E c \in Conns : Quiet /\ Close(c)
    \/ \E c \in Conns : Quiet /\ AcceptFail(c)
    \/ \E c \in Conns : ConnectRequest(c)
    \/ \E c \in Conns : ConnectAcquire(c)
    \/ \E c \in Conns : ConnectRegister(c)
    \/ \E c \in Conns : ConnectSnapshot(c)
    \/ \E c \in Conns : WelcomeReturn(c)
    \/ \E c \in Conns : JoinTargets(c)
    \/ \E c \in Conns, t \in Conns : Quiet /\ EventSend(c, t)
    \/ \E c \in Conns : Quiet /\ JoinDone(c)
    \/ \E c \in Conns : HandleRequest(c)
    \/ \E c \in Conns : HandleAcquire(c)
    \/ \E c \in Conns : HandleUpdate(c)
    \/ \E c \in Conns : DisconnectRequest(c)
    \/ \E c \in Conns : DisconnectAcquire(c)
    \/ \E c \in Conns : DisconnectRemove(c)
    \/ \E c \in Conns : LeaveTargets(c)
    \/ \E c \in Conns : Quiet /\ LeaveDone(c)
    \/ TickWake
    \/ TickAcquire
    \/ TickIntegrate
    \/ TickSnapshot
    \/ \E c \in Conns : Quiet /\ TickSend(c)
    \/ Quiet /\ TickGatherDone

\* A task that has requested the lock is running: it goes on to acquire the
\* lock as soon as the lock is free.
LockFair ==
    /\ \A c \in Conns :
          WF_vars(ConnectAcquire(c) \/ HandleAcquire(c) \/ DisconnectAcquire(c))
    /\ WF_vars(TickAcquire)

SpecLock == Init /\ [][NextLock]_vars /\ LockFair


\* ---- start() and stop(): the life of the tick task ----
MaxLifeTicks == 2
MaxLifeMsgs == 1

\* The places of a tick task that has been started and has not ended.
Running == {"sleep", "gather"}

\* Hub() constructed; the application has not started up yet.
InitLife ==
    /\ players = <<>>
    /\ sockets = <<>>
    /\ pc = [c \in Conns |-> "new"]
    /\ pid = [c \in Conns |-> NoId]
    /\ link = [c \in Conns |-> "open"]
    /\ evPending = [c \in Conns |-> {}]
    /\ nDisconnect = [c \in Conns |-> 0]
    /\ tickPc = "none"
    /\ tickPending = {}
    /\ ticks = 0
    /\ msgs = 0
    /\ welcome = [c \in Conns |-> NoFrame]
    /\ nWelcome = [c \in Conns |-> 0]
    /\ lock = Free
    /\ tickTask = "none"
    /\ cancelReq = FALSE
    /\ stopRes = "none"
    /\ last = Nothing

\* The records of a call of start() and of a call of stop().
Started == [op |-> "start"]
StopCalled == [op |-> "stop"]

\* Hub.start (main.py:151-154): a tick task is created when there is none.
Start ==
    /\ IF tickTask = "none"
       THEN /\ tickTask' = "task"
            /\ tickPc' = "sleep"
            /\ cancelReq' = FALSE
       ELSE UNCHANGED <<tickTask, tickPc, cancelReq>>
    /\ last' = Started
    /\ UNCHANGED <<lock, stopRes, welcome, nWelcome, players, sockets, pc, pid, link,
                   evPending, nDisconnect, tickPending, ticks, msgs>>

\* Hub.stop (main.py:156-162): with a tick task, cancel() is called on it and
\* line 160 raises NameError, the module never importing contextlib
\* (main.py:25-36): the task is not awaited and the handle is kept.  Without a
\* tick task stop() returns at once.
Stop ==
    /\ IF tickTask # "none"
       THEN /\ cancelReq' = (cancelReq \/ tickPc \in Running)
            /\ stopRes' = "raised"
       ELSE /\ cancelReq' = cancelReq
            /\ stopRes' = "returned"
    /\ last' = StopCalled
    /\ UNCHANGED <<lock, tickTask, welcome, nWelcome, players, sockets, pc, pid, link,
                   evPending, nDisconnect, tickPc, tickPending, ticks, msgs>>

\* The cancelled tick task is resumed: CancelledError is raised at its await,
\* the sleep or the gather, whose sends are cancelled with it, and _ticker
\* returns (main.py:175-179)
TickCancelled ==
    /\ tickPc \in Running
    /\ cancelReq
    /\ tickPc' = "stopped"
    /\ tickPending' = {}
    /\ cancelReq' = FALSE
    /\ last' = Nothing
    /\ UNCHANGED <<lock, tickTask, stopRes, welcome, nWelcome, players, sockets, pc,
                   pid, link, evPending, nDisconnect, ticks, msgs>>

\* The application serves connections once its startup has called start()
\* (main.py:280-282).
Serving == tickTask # "none"

NextLife ==
    \/ Start
    \/ Stop
    \/ TickCancelled
    \/ \E c \in Conns : Serving /\ Stall(c)
    \/ \E c \in Conns : Serving /\ Close(c)
    \/ \E c \in Conns : Serving /\ AcceptFail(c)
    \/ \E c \in Conns : Serving /\ Connect(c)
    \/ \E c \in Conns : Welcome(c)
    \/ \E c \in Conns, t \in Conns : EventSend(c, t)
    \/ \E c \in Conns : JoinDone(c)
    \/ \E c \in Conns, m \in Msgs : HandleMessage(c, m, MaxLifeMsgs)
    \/ \E c \in Conns : RecvClosed(c)
    \/ \E c \in Conns : RecvFault(c)
    \/ \E c \in Conns : LeaveDone(c)
    \/ TickStep(MaxLifeTicks)
    \/ \E c \in Conns : TickSend(c)
    \/ TickGatherDone

SpecLife == InitLife /\ [][NextLife]_vars


\* ======================= The claims =======================
Ended(c) == pc[c] \in {"done", "aborted", "crashed"}

\* C1: every registered player is inside the world: 0 <= x <= WORLD_WIDTH -
\* PLAYER_SIZE and 0 <= y <= WORLD_HEIGHT - PLAYER_SIZE, after connect and
\* after any number of ticks with any input flags and any dt.
C1_ClampInvariant ==
    \A i \in DOMAIN players :
        /\ 0 <= players[i].x /\ players[i].x <= (WORLD_WIDTH - PLAYER_SIZE) * UNIT
        /\ 0 <= players[i].y /\ players[i].y <= (WORLD_HEIGHT - PLAYER_SIZE) * UNIT

\* A tick has moved a player into the right and the top edge of the world.
C1_ClampedAtEdges ==
    /\ ticks > 0
    /\ \E i \in DOMAIN players :
        /\ players[i].input.right /\ players[i].input.up
        /\ players[i].x = (WORLD_WIDTH - PLAYER_SIZE) * UNIT
        /\ players[i].y = 0

\* C2: at every suspension point the key set of Hub.players equals the key set
\* of Hub.sockets.
C2_Lockstep == DOMAIN players = DOMAIN sockets

\* A connection has disconnected while another player is registered.
C2_ConnectedAndDisconnected ==
    /\ \E c \in Conns : nDisconnect[c] > 0
    /\ DOMAIN players # {}

\* C3: two connect() calls always yield two distinct ids, and while none has
\* disconnected the World holds one entry per connection that has registered.
C3_DistinctIds ==
    /\ \A c1, c2 \in Conns :
        (c1 # c2 /\ pid[c1] # NoId /\ pid[c2] # NoId) => pid[c1] # pid[c2]
    /\ (\A c \in Conns : nDisconnect[c] = 0) =>
        Cardinality(DOMAIN players) = Cardinality({c \in Conns : pid[c] # NoId})

\* C4: once the handler of a connection has terminated, for any reason, the
\* socket and player registered for that connection are no longer in the World.
C4_NoEntityOutlivesConnection ==
    \A c \in Conns : Ended(c) => c \notin SocketValues(sockets)

\* C5: the tick loop is never held up by stalled sends alone: when every send
\* of the state broadcast that is still pending is to a stalled connection, the
\* loop can go on to its next iteration.
C5_SlowConsumerDoesNotBlock ==
    (tickPc = "gather" /\ \A c \in tickPending : link[c] = "stalled")
        => ENABLED TickGatherDone

\* C6: a send that fails during a state or event broadcast never terminates the
\* tick loop (or the broadcasting handler), never changes players or sockets,
\* and leaves the send to every other target of that broadcast pending.
C6_SendFailureIsolated ==
    /\ [](tickPc # "crashed" /\ \A c \in Conns : pc[c] # "crashed")
    /\ [][(last'.op = "send" /\ last'.result # "sent") =>
            /\ players' = players /\ sockets' = sockets
            /\ tickPc' = tickPc /\ pc' = pc
            /\ IF last'.kind = "state"
               THEN /\ tickPending' = tickPending \ {last'.target}
                    /\ evPending' = evPending
               ELSE /\ tickPending' = tickPending
                    /\ evPending' = [evPending EXCEPT
                                       ![last'.conn] = @ \ {last'.target}]]_vars

\* A send of the state broadcast has failed and another send of the same
\* broadcast is still to finish.
C6_FailedSendOthersPending ==
    /\ last.op = "send" /\ last.kind = "state" /\ last.result = "dropped"
    /\ tickPc = "gather" /\ tickPending # {}

\* C7: an input frame handled for a connection that claims another id, or whose
\* player is no longer in the World, is discarded: no player, no socket and no
\* task changes, no send starts and no error is raised.
C7_ForeignInputDiscarded ==
    [][(last'.op = "frame" /\ last'.kind \in {"foreign", "vanished"} /\ msgs' # msgs) =>
            UNCHANGED <<players, sockets, pc, pid, link, evPending, nDisconnect,
                        tickPc, tickPending, ticks>>]_vars

\* A connection has just sent an input frame claiming the id of another
\* registered player.
C7_ForeignFrameHandled ==
    /\ last.op = "frame" /\ last.kind = "foreign"
    /\ last.id \in DOMAIN players
    /\ last.id # pid[last.conn]

\* C8: over the lifetime of an accepted connection hub.disconnect is invoked
\* exactly once, whichever path ends the connection.
C8_DisconnectExactlyOnce ==
    \A c \in Conns : (Ended(c) /\ pid[c] # NoId) => nDisconnect[c] = 1

\* C9: disconnect(p) with p absent changes neither players nor sockets;
\* disconnect(p) twice leaves what disconnect(p) once leaves; no entry of
\* another id is removed or changed, and the call raises no error.
C9_DisconnectIdempotent ==
    /\ [](\A p \in Ids :
            LET ps1 == PlayersAfterDisconnect(players, p)
                ss1 == SocketsAfterDisconnect(sockets, p)
            IN  /\ p \notin DOMAIN players => ps1 = players
                /\ p \notin DOMAIN sockets => ss1 = sockets
                /\ PlayersAfterDisconnect(ps1, p) = ps1
                /\ SocketsAfterDisconnect(ss1, p) = ss1
                /\ DOMAIN ps1 = DOMAIN players \ {p}
                /\ DOMAIN ss1 = DOMAIN sockets \ {p}
                /\ \A q \in DOMAIN ps1 : ps1[q] = players[q]
                /\ \A q \in DOMAIN ss1 : ss1[q] = sockets[q])
    /\ [][\A c \in Conns : nDisconnect'[c] # nDisconnect[c] =>
            /\ pc'[c] = "leave"
            /\ DOMAIN players' = DOMAIN players \ {pid[c]}
            /\ DOMAIN sockets' = DOMAIN sockets \ {pid[c]}
            /\ \A q \in DOMAIN players' : players'[q] = players[q]
            /\ \A q \in DOMAIN sockets' : sockets'[q] = sockets[q]]_vars

\* Two connections that drew the same id have both disconnected: the second
\* disconnect found the id absent.
C9_DisconnectedTwice ==
    \E c1, c2 \in Conns :
        /\ c1 # c2 /\ pid[c1] # NoId /\ pid[c1] = pid[c2]
        /\ nDisconnect[c1] = 1 /\ nDisconnect[c2] = 1

\* C10: an accepted input frame replaces the InputState of the sender's player
\* in one step: each flag is the flag of the frame, a missing flag false; no
\* other player, no position and nothing of the tick loop changes.
C10_InputReplaced ==
    [][(last'.op = "frame" /\ last'.kind = "own" /\ msgs' # msgs) =>
            LET p == pid[last'.conn]
                f == last'.flags
            IN  /\ DOMAIN players' = DOMAIN players
                /\ players'[p].input =
                       [up |-> f.up = "true", down |-> f.down = "true",
                        left |-> f.left = "true", right |-> f.right = "true"]
                /\ players'[p].x = players[p].x
                /\ players'[p].y = players[p].y
                /\ \A q \in DOMAIN players \ {p} : players'[q] = players[q]
                /\ UNCHANGED <<sockets, tickPc, tickPending, ticks>>]_vars

\* A frame without "up" has just been applied to a player that had moved up
\* from its start, and its up flag is now false.
C10_MissingFlagCleared ==
    /\ last.op = "frame" /\ last.kind = "own"
    /\ last.flags.up = "absent" /\ last.flags.left = "true"
    /\ LET p == pid[last.conn]
       IN  /\ \A s \in Starts : players[p].y < s[2]
           /\ players[p].input = [up |-> FALSE, down |-> FALSE,
                                  left |-> TRUE, right |-> FALSE]

\* C11: a disconnect while the state broadcast is in flight does not raise and
\* leaves every pending send of that broadcast as it was, and the id it removed
\* is in no snapshot of a later tick.
C11_RemovedMidBroadcast ==
    /\ [][\A c \in Conns : nDisconnect'[c] # nDisconnect[c] =>
            /\ pc'[c] = "leave"
            /\ tickPc' = tickPc /\ tickPending' = tickPending /\ link' = link]_vars
    /\ [](last.op = "tick" =>
            \A c \in Conns : nDisconnect[c] > 0 => pid[c] \notin SnapshotIds(last.snapshot))

\* C12: when connect() starts the join broadcast for a new player, its targets
\* are all connections registered at that time other than the new player's own
\* connection, and the own connection is never among them.
C12_JoinToOthersOnly ==
    [][\A c \in Conns : (pc[c] = "welcome" /\ pc'[c] = "join") =>
            /\ evPending'[c] = SocketValues(sockets) \ {c}
            /\ c \notin evPending'[c]]_vars

\* C13: the welcome send is called at most once for a connection and exactly
\* once when connect() has returned; the frame carries the id under which the
\* connection was registered and a snapshot with one entry per player registered
\* at that time, the new player included, with its position; the frame sent is
\* the frame built at registration.
C13_WelcomeOnceFullSnapshot ==
    /\ [](\A c \in Conns :
            /\ nWelcome[c] <= 1
            /\ pc[c] \in {"join", "recv", "leave", "done"} => nWelcome[c] = 1)
    /\ [][\A c \in Conns : (pc[c] = "new" /\ pc'[c] = "welcome") =>
            LET f == welcome'[c]
            IN  /\ f.type = "welcome"
                /\ f.id = pid'[c]
                /\ f.id \in DOMAIN sockets' /\ sockets'[f.id] = c
                /\ f.id \in SnapshotIds(f.world)
                /\ \A i \in DOMAIN players' :
                       Cardinality({k \in DOMAIN f.world : f.world[k].id = i}) = 1
                /\ \A k \in DOMAIN f.world :
                       /\ f.world[k].id \in DOMAIN players'
                       /\ f.world[k].x = players'[f.world[k].id].x
                       /\ f.world[k].y = players'[f.world[k].id].y]_vars
    /\ [][last'.op = "welcome" =>
            /\ pc[last'.conn] = "welcome"
            /\ last'.frame = welcome[last'.conn]
            /\ last'.frame.type = "welcome"]_vars

\* A connection has been sent its welcome frame, with the snapshot of two
\* players, after the other player has left the position of that snapshot.
C13_WelcomeWithTwoPlayers ==
    /\ last.op = "welcome" /\ last.result = "sent"
    /\ Len(last.frame.world) = 2
    /\ \E k \in DOMAIN last.frame.world :
          LET e == last.frame.world[k]
          IN  /\ e.id # last.frame.id
              /\ e.id \in DOMAIN players
              /\ players[e.id].y # e.y

\* C14: with left the only flag set and ticks of dt = 0.05 s, after k steps
\* x = max(0, x0 - k * speed * 0.05) and y is the start's y.
C14_LeftSequence ==
    /\ [](\A i \in DOMAIN players :
            \E s \in SeqStarts :
                /\ players[i].y = s[2]
                /\ players[i].x = Max(0, s[1] - ticks * DEFAULT_PLAYER_SPEED * TICK_MS))
    /\ [][\A i \in DOMAIN players :
            /\ players'[i].y = players[i].y
            /\ ticks' # ticks =>
                 players'[i].x = Max(0, players[i].x - DEFAULT_PLAYER_SPEED * TICK_MS)]_vars

\* A player that started ten steps from the left edge has reached x = 0 and
\* has stayed there for a further step.
C14_FloorReachedAndKept ==
    \E i \in DOMAIN players :
        /\ players[i].y = 540 * UNIT
        /\ players[i].x = 0
        /\ 100 * UNIT - (ticks - 1) * DEFAULT_PLAYER_SPEED * TICK_MS < 0

\* C15: in a step that does not clamp, a player with one effective horizontal
\* and one effective vertical flag moves by the same amount on both axes, in
\* the directions of the flags, and the length of the displacement is speed * dt
\* (to a thousandth of its square), not speed * dt * sqrt(2); a player with
\* one effective axis moves by exactly speed * dt on it and not at all on the
\* other, also when the flags of the other axis are both set.
C15_DiagonalNormalised ==
    [][last'.op = "tick" =>
        \A i \in DOMAIN players :
            LET p == players[i]
                q == players'[i]
                h == (IF p.input.right THEN 1 ELSE 0) - (IF p.input.left THEN 1 ELSE 0)
                v == (IF p.input.down THEN 1 ELSE 0) - (IF p.input.up THEN 1 ELSE 0)
                dx == q.x - p.x
                dy == q.y - p.y
                d == DEFAULT_PLAYER_SPEED * last'.dt
                inside == /\ 0 < q.x /\ q.x < (WORLD_WIDTH - PLAYER_SIZE) * UNIT
                          /\ 0 < q.y /\ q.y < (WORLD_HEIGHT - PLAYER_SIZE) * UNIT
            IN  inside =>
                  IF h # 0 /\ v # 0
                  THEN /\ Abs(dx) = Abs(dy)
                       /\ Sign(dx) = h * Sign(d) /\ Sign(dy) = v * Sign(d)
                       /\ Abs(dx * dx + dy * dy - d * d) <= (d * d) \div 1000
                       /\ d > 0 => dx * dx + dy * dy < 2 * d * d
                  ELSE dx = h * d /\ dy = v * d]_vars

\* A player has moved up and right for one tick of 50 ms and then, with left,
\* right and down set, straight down for another.
C15_DiagonalThenStraight ==
    /\ ticks = 2 /\ last.op = "tick" /\ last.dt = 50
    /\ \E i \in DOMAIN players :
        /\ players[i].input = [up |-> FALSE, down |-> TRUE, left |-> TRUE, right |-> TRUE]
        /\ players[i].x = 15 * UNIT + 7778
        /\ players[i].y = 540 * UNIT - 7778 + DEFAULT_PLAYER_SPEED * 50

C16_AllAccessUnderLock ==
    [][last'.op = "access" => lock = last'.task]_vars

\* The tasks that have requested the lock and not yet acquired it.
Requesting ==
    { c \in Conns : pc[c] \in {"connect_lock", "handle_lock", "disconnect_lock"} }
        \cup (IF tickPc = "step_lock" THEN {TickTask} ELSE {})

\* C17: no task holds the lock while its accept, its sends or its sleep are in
\* progress; whenever a task requests the lock the lock is free, whatever sends
\* are blocked; and a task that requests the lock comes to hold it.
C17_LockReleasedBeforeIO ==
    /\ [](\A c \in Conns :
            pc[c] \in {"new", "welcome", "join", "recv", "leave"} => lock # c)
    /\ [](tickPc \in {"sleep", "gather"} => lock # TickTask)
    /\ [](Requesting # {} => lock = Free)
    /\ \A t \in Conns \cup {TickTask} : (t \in Requesting) ~> (lock = t)

\* A task holds the lock while a send of the state broadcast is blocked on a
\* stalled connection and a welcome send is in progress.
C17_LockHeldDuringBlockedSend ==
    /\ lock \in Conns
    /\ tickPc = "gather"
    /\ \E t \in tickPending : link[t] = "stalled"
    /\ \E c \in Conns : pc[c] = "welcome"

\* C19: the tick task never crashes, and it leaves Running only by the
\* cancellation of a stop(); whatever the connections do, every iteration is a
\* step followed by a broadcast of the stepped world to all registered sockets,
\* and the loop can always go on unless a send is blocked on a stalled
\* connection: with no socket registered the gather returns at once.
C19_LoopStaysRunning ==
    /\ [](tickPc \in {"none", "stopped"} \cup Running)
    /\ [](tickPc = "stopped" => stopRes # "none")
    /\ [][(tickPc \in Running /\ tickPc' \notin Running) =>
            (tickPc' = "stopped" /\ cancelReq /\ stopRes # "none")]_vars
    /\ [][ticks' # ticks =>
            /\ tickPc' = "gather"
            /\ tickPending' = SocketValues(sockets')
            /\ last'.op = "tick"
            /\ SnapshotIds(last'.snapshot) = DOMAIN players']_vars
    /\ []((tickPc \in Running /\ ~cancelReq) =>
            /\ (tickPc = "sleep" /\ ticks < MaxLifeTicks) => ENABLED TickStep(MaxLifeTicks)
            /\ (tickPc = "gather" /\ tickPending = {}) => ENABLED TickGatherDone
            /\ \A c \in Conns :
                 (tickPc = "gather" /\ c \in tickPending /\ link[c] # "stalled")
                     => ENABLED TickSend(c))

\* A connection has come and gone, no stop() was called, and the loop has
\* just broadcast the empty world, in its second iteration.
C19_EmptyWorldTick ==
    /\ stopRes = "none"
    /\ last.op = "tick" /\ last.snapshot = <<>>
    /\ tickPc = "gather" /\ tickPending = {}
    /\ ticks = 2
    /\ \E c \in Conns : nDisconnect[c] > 0

\* C20: a stop() that has been called has completed without error, the loop
\* is then Stopped and the task handle cleared; a stopped loop neither
\* integrates nor broadcasts; start() leaves a loop running, also after a
\* stop(); and the step in which the cancellation takes effect moves no player.
C20_StopCooperative ==
    /\ [][last'.op = "stop" =>
            /\ stopRes' = "returned"
            /\ tickTask' = "none"
            /\ tickPc' \notin Running]_vars
    /\ [][(tickPc = "stopped" /\ tickPc' = "stopped") =>
            (ticks' = ticks /\ tickPending' = tickPending)]_vars
    /\ [][last'.op = "start" => (tickTask' = "task" /\ tickPc' \in Running)]_vars
    /\ [][(tickPc \in Running /\ tickPc' = "stopped") => players' = players]_vars

====
